---- MODULE Spec2Model ----
(***************************************************************************)
(* Model of the items REST API (controllers/itemController.js, here        *)
(* src/unnamed/part_000, and models/Item.js, here src/unnamed/part_001):   *)
(* the CRUD handlers over the item collection and the cursor-paginated     *)
(* list handler getItems.                                                  *)
(*                                                                         *)
(* JavaScript values are records [k, n]: k is the kind ("undef", "num",    *)
(* "date", "invalid" for an Invalid Date, "str" for the ISO text of a      *)
(* date), n the number or the instant.  Text is a sequence of characters.  *)
(***************************************************************************)
EXTENDS Integers, Sequences, FiniteSets

\* ------------------------------------------------------------- bounds
MaxItems == 3
MaxLimit == 2
MaxUpdates == 1

\* ------------------------------------------------------ JavaScript values
Undef == [k |-> "undef", n |-> 0]
Num(x) == [k |-> "num", n |-> x]
Date(x) == [k |-> "date", n |-> x]
InvalidDate == [k |-> "invalid", n |-> 0]
IsoStr(x) == [k |-> "str", n |-> x]

NoText == << >>

\* String.prototype.toLowerCase on the characters the model uses (the 'i'
\* option of $regex compares case-insensitively).
Lower(c) ==
  CASE c = "L" -> "l"
    [] c = "A" -> "a"
    [] c = "P" -> "p"
    [] c = "T" -> "t"
    [] c = "O" -> "o"
    [] OTHER -> c

\* { $regex: term, $options: 'i' } for a literal term: term occurs in text,
\* letter case ignored.  A missing text attribute never matches.
RegexMatchI(text, term) ==
  \E i \in 1..(Len(text) - Len(term) + 1) :
    \A j \in 1..Len(term) : Lower(text[i + j - 1]) = Lower(term[j])

\* ---------------------------------------------------------------- items
\* lastItem[sortBy] on a lean document: the attribute, undefined when the
\* document has no such attribute.
Field(item, f) ==
  CASE f = "createdAt" -> Date(item.createdAt)
    [] f = "price" -> Num(item.price)
    [] f = "stock" -> Num(item.stock)
    [] OTHER -> Undef

\* ------------------------------------------------------------ cursor codec
\* A cursor token is the base64 text of a JSON text.  base64 is reversible
\* and Buffer.from(x, 'base64') never throws, so a token is modelled by the
\* JSON text it carries: t is its shape ("none" for no cursor parameter,
\* "garbage" for text JSON.parse rejects, "null", "num" for a scalar, "obj"
\* for an object with the members keys/val).
NoCursor == [t |-> "none", keys |-> {}, val |-> << >>]
Token(t) == [t |-> t, keys |-> {}, val |-> << >>]
JsonObj(f) == [t |-> "obj", keys |-> DOMAIN f, val |-> f]

\* JSON.stringify of one member value: a Date becomes its ISO text, a number
\* stays a number.
ToJson(v) == IF v.k = "date" THEN IsoStr(v.n) ELSE v

\* Buffer.from(JSON.stringify(cursorData)).toString('base64') for
\* cursorData = { [sortBy]: lastItem[sortBy], createdAt: lastItem.createdAt }:
\* a repeated key keeps the later value, an undefined member is left out.
EncodeCursor(sortBy, lastItem) ==
  LET data == [key \in {sortBy, "createdAt"} |->
                 IF key = "createdAt" THEN Field(lastItem, "createdAt")
                 ELSE Field(lastItem, sortBy)]
      kept == {key \in DOMAIN data : data[key] # Undef}
  IN JsonObj([key \in kept |-> ToJson(data[key])])

\* JSON.parse(Buffer.from(cursor, 'base64').toString('utf-8')) throws on text
\* that is not JSON; reading a property of the parsed null throws as well.
DecodeThrows(tok) == tok.t \in {"garbage", "null"}

\* cursorValue[key]: undefined on a scalar and on an object without the key.
Prop(tok, key) ==
  IF tok.t = "obj" /\ key \in tok.keys THEN tok.val[key] ELSE Undef

\* new Date(x): the instant of an ISO text or of a number of milliseconds,
\* an Invalid Date for undefined.
NewDate(v) ==
  CASE v.k = "str" -> Date(v.n)
    [] v.k = "num" -> Date(v.n)
    [] v.k = "date" -> v
    [] OTHER -> InvalidDate

\* ------------------------------------------------------- filter and sort
NoCond == [op |-> "none", v |-> Undef]
OrAbsent ==
  [kind |-> "none", term |-> NoText, field |-> "", op |-> "", v |-> Undef, c |-> Undef]
\* filter.$or = [ { name: {$regex}}, { description: {$regex} } ]
OrSearch(term) ==
  [kind |-> "search", term |-> term, field |-> "", op |-> "", v |-> Undef, c |-> Undef]
\* filter.$or = [ { f: {op: v} }, { f: v, createdAt: {op: c} } ]
OrCursor(f, op, v, c) ==
  [kind |-> "cursor", term |-> NoText, field |-> f, op |-> op, v |-> v, c |-> c]

\* The filter object built from the query parameters other than the cursor.
BaseFilter(q) ==
  [category |-> q.category,
   status |-> q.status,
   price |-> IF q.minPrice # Undef \/ q.maxPrice # Undef
             THEN [gte |-> q.minPrice, lte |-> q.maxPrice]
             ELSE [gte |-> Undef, lte |-> Undef],
   or |-> IF q.search # NoText THEN OrSearch(q.search) ELSE OrAbsent,
   createdAt |-> NoCond]

\* Mutant of WithCursor: the comparisons include the cursor's own position
\* ($lte / $gte for $lt / $gt).
WithCursorInclusive(filter, q) ==
  LET cmp == IF q.sortOrder = "desc" THEN "lte" ELSE "gte"
      c == NewDate(Prop(q.cursor, "createdAt"))
  IN IF q.sortBy = "createdAt"
     THEN [filter EXCEPT !.createdAt = [op |-> cmp, v |-> c]]
     ELSE [filter EXCEPT !.or = OrCursor(q.sortBy, cmp, Prop(q.cursor, q.sortBy), c)]

\* Mutant of WithCursor: the condition is built on the field the cursor
\* itself names, whatever the sortBy of the request.
WithCursorEmbedded(filter, q) ==
  LET cmp == IF q.sortOrder = "desc" THEN "lt" ELSE "gt"
      c == NewDate(Prop(q.cursor, "createdAt"))
      own == q.cursor.keys \ {"createdAt"}
  IN IF own = {}
     THEN [filter EXCEPT !.createdAt = [op |-> cmp, v |-> c]]
     ELSE LET f == CHOOSE key \in own : TRUE
          IN [filter EXCEPT !.or = OrCursor(f, cmp, Prop(q.cursor, f), c)]

\* The cursor condition added to the filter, by sort field.
WithCursor(filter, q) ==
  LET cmp == IF q.sortOrder = "desc" THEN "lt" ELSE "gt"
      c == NewDate(Prop(q.cursor, "createdAt"))
  IN IF q.sortBy = "createdAt"
     THEN [filter EXCEPT !.createdAt = [op |-> cmp, v |-> c]]
     ELSE IF q.sortBy = "price"
     THEN [filter EXCEPT !.or = OrCursor("price", cmp, Prop(q.cursor, "price"), c)]
     ELSE [filter EXCEPT !.or = OrCursor(q.sortBy, cmp, Prop(q.cursor, q.sortBy), c)]

\* The filter handed to Item.find.
CompileFilter(q) ==
  IF q.cursor.t = "none" THEN BaseFilter(q) ELSE WithCursor(BaseFilter(q), q)

\* Mutant of SortSpec: the direction of the request is ignored.
SortSpecDescOnly(q) == [by |-> q.sortBy, dir |-> -1, tie |-> q.sortBy # "createdAt"]

\* sort[sortBy] = sortOrder === 'desc' ? -1 : 1, and createdAt: -1 as the
\* secondary key when sortBy is not createdAt.
SortSpec(q) ==
  [by |-> q.sortBy,
   dir |-> IF q.sortOrder = "desc" THEN -1 ELSE 1,
   tie |-> q.sortBy # "createdAt"]

\* ---------------------------------------------------------------- storage
\* One comparison of a query condition: the document's value a against the
\* operand b.  Values of different kinds never compare; an undefined operand
\* is sent as null, which only equals a missing attribute.
Cmp(op, a, b) ==
  LET same == a.k = b.k /\ a.k \in {"num", "date"}
  IN CASE op = "lt" -> same /\ a.n < b.n
       [] op = "gt" -> same /\ a.n > b.n
       [] op = "lte" -> same /\ a.n <= b.n
       [] op = "gte" -> same /\ a.n >= b.n
       [] op = "eq" -> IF b.k = "undef" THEN a.k = "undef" ELSE same /\ a.n = b.n
       [] OTHER -> FALSE

\* Whether a document satisfies the filter object: its keys are ANDed, the
\* members of $or are ORed.
Matches(item, f) ==
  /\ f.category = "" \/ item.category = f.category
  /\ f.status = "" \/ item.status = f.status
  /\ f.price.gte = Undef \/ Cmp("gte", Num(item.price), f.price.gte)
  /\ f.price.lte = Undef \/ Cmp("lte", Num(item.price), f.price.lte)
  /\ f.createdAt.op = "none"
       \/ Cmp(f.createdAt.op, Field(item, "createdAt"), f.createdAt.v)
  /\ CASE f.or.kind = "search" ->
            RegexMatchI(item.name, f.or.term) \/ RegexMatchI(item.description, f.or.term)
       [] f.or.kind = "cursor" ->
            \/ Cmp(f.or.op, Field(item, f.or.field), f.or.v)
            \/ /\ Cmp("eq", Field(item, f.or.field), f.or.v)
               /\ Cmp(f.or.op, Field(item, "createdAt"), f.or.c)
       [] OTHER -> TRUE

\* What the query layer can do with the filter.  A condition on the Date
\* path createdAt whose operand is an Invalid Date fails the cast, and the
\* query rejects.  An undefined operand is outside what the handler
\* controls: the query either rejects or runs with the operand as null.
StorageOutcomes(f) ==
  LET dates == {f.createdAt.v, f.or.c}
  IN IF InvalidDate \in dates THEN {"error"}
     ELSE IF f.or.kind = "cursor" /\ f.or.v = Undef THEN {"ok", "error"}
     ELSE {"ok"}

\* a is sorted strictly after b under the sort object.
SortsAfter(a, b, sort) ==
  LET ka == Field(a, sort.by)
      kb == Field(b, sort.by)
      d == IF ka.k = "undef" \/ kb.k = "undef" THEN 0 ELSE sort.dir * (ka.n - kb.n)
  IN \/ d > 0
     \/ d = 0 /\ sort.tie /\ a.createdAt < b.createdAt

\* Every order find(filter).sort(sort) can return the matching documents in:
\* documents the sort object does not separate come in any order.
FindSorted(docs, f, sort) ==
  LET hit == {x \in docs : Matches(x, f)}
      n == Cardinality(hit)
  IN {s \in [1..n -> hit] :
        /\ \A i, j \in 1..n : i < j => s[i] # s[j] /\ ~SortsAfter(s[i], s[j], sort)}

\* .limit(n): the first n documents; 0 means no limit.
Limited(s, n) == IF n = 0 \/ Len(s) <= n THEN s ELSE SubSeq(s, 1, n)

\* Array.prototype.slice(0, n): a negative n counts from the end.
Slice0(s, n) ==
  IF n >= 0 THEN SubSeq(s, 1, IF n < Len(s) THEN n ELSE Len(s))
  ELSE SubSeq(s, 1, IF Len(s) + n > 0 THEN Len(s) + n ELSE 0)

\* ------------------------------------------------------------- getItems
DefaultLimit == 10

\* parseInt(limit, 10) of the limit parameter, 10 when it is absent.
LimitNum(q) == IF q.limit = Undef THEN DefaultLimit ELSE q.limit.n

NoQuery == [sent |-> FALSE, filter |-> << >>, sort |-> << >>, limit |-> 0]
NoResponse ==
  [status |-> 0, items |-> << >>, hasMore |-> FALSE, nextCursor |-> NoCursor,
   limit |-> 0, count |-> 0]
\* res.status(code).json({ success: false, message }): no data member.
Failure(code) == [NoResponse EXCEPT !.status = code]

\* The 200 response built from the documents the query returned.
Page(q, items) ==
  LET limitNum == LimitNum(q)
      hasMore == Len(items) > limitNum
      resultItems == IF hasMore THEN Slice0(items, limitNum) ELSE items
      nextCursor == IF hasMore /\ Len(resultItems) > 0
                    THEN EncodeCursor(q.sortBy, resultItems[Len(resultItems)])
                    ELSE NoCursor
  IN [status |-> 200, items |-> resultItems, hasMore |-> hasMore,
      nextCursor |-> nextCursor, limit |-> limitNum, count |-> Len(resultItems)]

\* The handler on the collection docs: the possible pairs of the response
\* and the storage query issued on the way.
GetItems(docs, q) ==
  IF q.cursor.t # "none" /\ DecodeThrows(q.cursor)
  THEN {[res |-> Failure(400), issued |-> NoQuery]}
  ELSE LET f == CompileFilter(q)
           sort == SortSpec(q)
           n == LimitNum(q) + 1
           query == [sent |-> TRUE, filter |-> f, sort |-> sort, limit |-> n]
       IN {[res |-> Failure(500), issued |-> query] :
              o \in StorageOutcomes(f) \cap {"error"}}
          \cup
          {[res |-> Page(q, Limited(s, n)), issued |-> query] :
              s \in IF "ok" \in StorageOutcomes(f) THEN FindSorted(docs, f, sort) ELSE {}}

\* ------------------------------------------------------- inputs (bounded)
Lap == <<"L", "a", "p">>
Top == <<"T", "o", "p">>
SearchTerm == <<"l", "a", "p">>

\* Request bodies of POST /items: name, category and price are required,
\* description, stock and status are optional.
Bodies ==
  [name : {Lap, Top}, description : {NoText}, category : {"electronics"},
   price : {Num(1), Num(2)}, stock : {Undef}, status : {""}]

\* Request bodies of PUT /items/:id, one attribute each.
UpdateBodies ==
  [field : {"createdAt"}, v : {Date(1)}]
    \cup [field : {"stock"}, v : {Num(1)}]

SortFields == {"createdAt", "price", "stock", "rating"}
ItemAttributes == {"createdAt", "price", "stock"}
Limits == {Num(n) : n \in 0..MaxLimit}

\* The filter parameters of a request: one of them present at most, or
\* search or category together with a price bound.
Present(fp) ==
  {"category" : x \in {1} \cap {IF fp.category = "" THEN 0 ELSE 1}}
    \cup {"status" : x \in {1} \cap {IF fp.status = "" THEN 0 ELSE 1}}
    \cup {"minPrice" : x \in {1} \cap {IF fp.minPrice = Undef THEN 0 ELSE 1}}
    \cup {"maxPrice" : x \in {1} \cap {IF fp.maxPrice = Undef THEN 0 ELSE 1}}
    \cup {"search" : x \in {1} \cap {IF fp.search = NoText THEN 0 ELSE 1}}

FilterParams ==
  {fp \in [category : {"", "electronics"}, status : {"", "inactive"},
           minPrice : {Undef, Num(2)}, maxPrice : {Undef, Num(1)},
           search : {NoText, SearchTerm}] :
       \/ Cardinality(Present(fp)) <= 1
       \/ Present(fp) \in {{"search", "minPrice"}, {"category", "maxPrice"}}}

Query(cursor, limit, sortBy, sortOrder, fp) ==
  [cursor |-> cursor, limit |-> limit, sortBy |-> sortBy, sortOrder |-> sortOrder,
   category |-> fp.category, status |-> fp.status, minPrice |-> fp.minPrice,
   maxPrice |-> fp.maxPrice, search |-> fp.search]

\* Cursor parameters a client can make up without having been issued them.
ForgedCursors ==
  {Token("garbage"), Token("null"), Token("num"), JsonObj(<< >>),
   JsonObj([key \in {"price"} |-> Num(1)])}

\* ----------------------------------------------------------------- state
VARIABLES
  db,        \* the item collection
  nextId,    \* the next _id
  now,       \* Date.now() of the next insertion
  updates,   \* PUT requests served
  started,   \* the client has sent the first request of its chain
  req,       \* the query of the client's last GET /items
  res,       \* its response
  issued,    \* the storage query it issued
  pages,     \* the items the chain returned so far, page after page
  first,     \* the query the chain started with
  firstNew,  \* nextId when the chain started
  dirty,     \* the kinds of writes since the chain started
  mono,      \* createdAt was distinct and increasing by insertion at the start
  resorted,  \* the chain changed sortBy between two pages
  under,     \* the sortBy the cursor of the last request was issued under
  orphan     \* the item that cursor was built from was gone at the request

vars ==
  <<db, nextId, now, updates, started, req, res, issued, pages, first, firstNew,
    dirty, mono, resorted, under, orphan>>

store == <<db, nextId, now, updates>>
chain ==
  <<started, req, res, issued, pages, first, firstNew, resorted, under, orphan>>

NoFilter == [category |-> "", status |-> "", minPrice |-> Undef, maxPrice |-> Undef,
             search |-> NoText]
IdleQuery == Query(NoCursor, Undef, "createdAt", "desc", NoFilter)

Init ==
  /\ db = {}
  /\ nextId = 1
  /\ now = 1
  /\ updates = 0
  /\ started = FALSE
  /\ req = IdleQuery
  /\ res = NoResponse
  /\ issued = NoQuery
  /\ pages = << >>
  /\ firstNew = 1
  /\ dirty = {}
  /\ mono = TRUE
  /\ resorted = FALSE
  /\ first = IdleQuery
  /\ under = ""
  /\ orphan = FALSE

\* createdAt is distinct, increasing in insertion order and in the past.
Monotone(docs, clock) ==
  /\ \A a, b \in docs : a.id < b.id => a.createdAt < b.createdAt
  /\ \A a \in docs : a.createdAt < clock

\* --------------------------------------------------------------- writes
\* Item.create({...}) with the schema defaults: stock || 0, status ||
\* 'active', createdAt: Date.now.
NewItem(body, id, clock) ==
  [id |-> id, name |-> body.name, description |-> body.description,
   category |-> body.category, price |-> body.price.n,
   stock |-> IF body.stock = Undef THEN 0 ELSE body.stock.n,
   status |-> IF body.status = "" THEN "active" ELSE body.status,
   createdAt |-> clock]

\* POST /items.  A body without name, category or price is answered 400
\* and changes nothing.
createItem(body) ==
  /\ nextId <= MaxItems
  /\ body.name # NoText /\ body.category # "" /\ body.price # Undef
  /\ db' = db \cup {NewItem(body, nextId, now)}
  /\ nextId' = nextId + 1
  /\ now' = now + 1
  /\ dirty' = dirty \cup {"create"}
  /\ UNCHANGED <<updates, chain, mono>>

\* findByIdAndUpdate(id, req.body, {new, runValidators}): the body's
\* attributes are set as given.  An unknown id is answered 404.
Updated(item, body) ==
  CASE body.field = "createdAt" -> [item EXCEPT !.createdAt = body.v.n]
    [] body.field = "stock" -> [item EXCEPT !.stock = body.v.n]
    [] body.field = "price" -> [item EXCEPT !.price = body.v.n]
    [] OTHER -> item

updateItem(id, body) ==
  /\ updates < MaxUpdates
  /\ \E item \in db :
       /\ item.id = id
       /\ db' = (db \ {item}) \cup {Updated(item, body)}
  /\ updates' = updates + 1
  /\ dirty' = dirty \cup {"update"}
  /\ mono' = FALSE
  /\ UNCHANGED <<nextId, now, chain>>

\* findByIdAndDelete(id).  An unknown id is answered 404.
deleteItem(id) ==
  /\ \E item \in db :
       /\ item.id = id
       /\ db' = db \ {item}
  /\ dirty' = dirty \cup {"delete"}
  /\ UNCHANGED <<nextId, now, updates, chain, mono>>

\* ---------------------------------------------------------------- reads
\* GET /items with the query q, as the first request of the client's chain.
\* The handler keeps no state between requests, so one chain per behaviour
\* is every chain: a later chain is the first chain of the behaviour that
\* made the same writes before it.
FirstPage(q) ==
  /\ ~started
  /\ started' = TRUE
  /\ \E out \in GetItems(db, q) :
       /\ res' = out.res
       /\ issued' = out.issued
       /\ pages' = out.res.items
  /\ req' = q
  /\ first' = q
  /\ under' = ""
  /\ orphan' = FALSE
  /\ firstNew' = nextId
  /\ dirty' = {}
  /\ mono' = Monotone(db, now)
  /\ resorted' = FALSE
  /\ UNCHANGED store

\* The client follows nextCursor.
Pending == res.status = 200 /\ res.nextCursor # NoCursor

Follow(q) ==
  /\ \E out \in GetItems(db, q) :
       /\ res' = out.res
       /\ issued' = out.issued
       /\ pages' = pages \o out.res.items
  /\ req' = q
  /\ under' = req.sortBy
  /\ orphan' = (\A x \in db : EncodeCursor(req.sortBy, x) # q.cursor)
  /\ UNCHANGED <<store, started, first, firstNew, dirty, mono>>

\* GET /items?cursor=<nextCursor> with the parameters of the page before.
NextPage ==
  /\ Pending
  /\ Follow([req EXCEPT !.cursor = res.nextCursor])
  /\ UNCHANGED resorted

\* The same with another sortBy than the one the cursor was issued under
\* (the client changes its mind after the first page).
NextPageResorted(sortBy) ==
  /\ Pending
  /\ ~resorted
  /\ req.cursor = NoCursor
  /\ sortBy # req.sortBy
  /\ Follow([req EXCEPT !.cursor = res.nextCursor, !.sortBy = sortBy])
  /\ resorted' = TRUE

\* Writes at any time, and a client paging under the default sort key.
LiveBodies == {body \in Bodies : body.name = Lap}
LiveUpdates == {body \in UpdateBodies : body.field = "createdAt"}
LiveQueries ==
  {Query(NoCursor, Num(limit), "createdAt", sortOrder, fp) :
     limit \in 1..MaxLimit, sortOrder \in {"desc", "asc"},
     fp \in {fp \in FilterParams : fp.category = "" /\ fp.status = "" /\ fp.search = NoText}}

Next ==
  \/ \E body \in LiveBodies : createItem(body)
  \/ \E id \in 1..MaxItems, body \in LiveUpdates : updateItem(id, body)
  \/ \E id \in 1..MaxItems : deleteItem(id)
  \/ \E q \in LiveQueries : FirstPage(q)
  \/ NextPage

Spec == Init /\ [][Next]_vars

\* A static dataset: no write once the client has started.
Seed ==
  /\ ~started
  /\ \/ \E body \in Bodies : createItem(body)
     \/ \E id \in 1..MaxItems, body \in UpdateBodies : updateItem(id, body)
     \/ \E id \in 1..MaxItems : deleteItem(id)

\* Over a static dataset, every query of the bounded input sets, made-up
\* cursors included.
StaticQueries ==
  {Query(NoCursor, limit, sortBy, sortOrder, fp) :
     limit \in Limits, sortBy \in SortFields, sortOrder \in {"desc", "asc"},
     fp \in FilterParams}
  \cup {Query(cursor, Undef, sortBy, "desc", NoFilter) :
          cursor \in ForgedCursors, sortBy \in SortFields}

NextStatic ==
  \/ Seed
  \/ \E q \in StaticQueries : FirstPage(q)
  \/ NextPage

SpecStatic == Init /\ [][NextStatic]_vars

\* The queries with a limit >= 1 and a sortBy that is an attribute of the
\* items.
ChainQueries ==
  {Query(NoCursor, Num(limit), sortBy, sortOrder, fp) :
     limit \in 1..MaxLimit, sortBy \in ItemAttributes, sortOrder \in {"desc", "asc"},
     fp \in {fp \in FilterParams : fp.status = "" /\ fp.maxPrice = Undef}}

\* Over a static dataset, a client that keeps asking for the next page while
\* there is one.
NextChain ==
  \/ ~started /\ \E body \in Bodies : createItem(body)
  \/ ~started /\ \E id \in 1..MaxItems, body \in UpdateBodies : updateItem(id, body)
  \/ \E q \in ChainQueries : FirstPage(q)
  \/ NextPage

SpecChain == Init /\ [][NextChain]_vars /\ WF_vars(NextPage)

\* Over a static dataset, a client that changes sortBy after the first page.
ResortQueries ==
  {Query(NoCursor, Num(limit), sortBy, sortOrder, fp) :
     limit \in 1..MaxLimit, sortBy \in SortFields, sortOrder \in {"desc", "asc"},
     fp \in {fp \in FilterParams : Present(fp) \subseteq {"search"}}}

NextResort ==
  \/ ~started /\ \E body \in Bodies : createItem(body)
  \/ \E q \in ResortQueries : FirstPage(q)
  \/ \E sortBy \in SortFields : NextPageResorted(sortBy)

SpecResort == Init /\ [][NextResort]_vars

\* ================================================================ claims
Ids(s) == [i \in 1..Len(s) |-> s[i].id]
Started == started
\* The request was answered with a page.
Ok == res.status = 200
\* The chain ran from a first request without cursor, its parameters fixed,
\* with a limit >= 1 and a sortBy that is an attribute of the items.
Regular ==
  /\ Started
  /\ first.cursor = NoCursor
  /\ ~resorted
  /\ LimitNum(first) >= 1
  /\ first.sortBy \in ItemAttributes
\* No write since the chain started.
Static == dirty = {}
Complete == Ok /\ ~res.hasMore
DistinctCreatedAt == \A a, b \in db : a.createdAt = b.createdAt => a = b
Matching == {x \in db : Matches(x, BaseFilter(first))}

\* C1: over a static dataset, the pages of a chain followed to its end are,
\* in order, the ids of the one unbounded query with the same filter and
\* sort: none repeated, none omitted.
C1_ChainIsUnboundedQuery ==
  (Regular /\ Static /\ Complete /\ DistinctCreatedAt) =>
    \A s \in FindSorted(db, BaseFilter(first), SortSpec(first)) : Ids(pages) = Ids(s)

\* C2: every item of every page satisfies all the filters of the request,
\* with or without a cursor.
C2_PageSatisfiesFilters ==
  (Started /\ Ok) =>
    \A i \in 1..Len(res.items) : Matches(res.items[i], BaseFilter(req))

\* C3: a request whose cursor is not a well-formed token for the requested
\* sortBy is answered 400 and issues no storage query.
WellFormed(q) ==
  /\ q.cursor.t = "obj"
  /\ {q.sortBy, "createdAt"} \subseteq q.cursor.keys
C3_BadCursorIs400 ==
  (Started /\ req.cursor # NoCursor /\ ~WellFormed(req)) =>
    (res.status = 400 /\ ~issued.sent)

\* C5: a 200 response holds at most limit items, count is their number, and
\* nextCursor is there exactly when hasMore is true.
C5_PageShape ==
  (Started /\ Ok) =>
    /\ Len(res.items) <= res.limit
    /\ res.count = Len(res.items)
    /\ (res.nextCursor # NoCursor) <=> res.hasMore

\* C6: over a static dataset with n matching items and limit k >= 1, the
\* first page has hasMore = (n > k) and min(n, k) items, no cursor when
\* n = k, and with n = k + 1 the second page ends the chain.
C6_HasMoreAccuracy ==
  LET n == Cardinality(Matching)
      k == LimitNum(first)
  IN (Regular /\ Static /\ Ok) =>
       /\ req = first =>
            /\ res.hasMore = (n > k)
            /\ Len(res.items) = (IF n < k THEN n ELSE k)
            /\ n = k => res.nextCursor = NoCursor
       /\ (req.cursor # NoCursor /\ Len(pages) - res.count = k /\ n = k + 1) =>
            (~res.hasMore /\ res.nextCursor = NoCursor)

\* C7: a request with limit <= 0 or with a sortBy that is no attribute of
\* the items is answered 400 before any storage query.
C7_DegenerateIs400 ==
  (Started /\ (LimitNum(req) <= 0 \/ req.sortBy \notin ItemAttributes)) =>
    (res.status = 400 /\ ~issued.sent)

\* C8: no operation changes the createdAt of an existing item.
C8_CreatedAtImmutable ==
  [][\A a \in db : \A b \in db' : a.id = b.id => a.createdAt = b.createdAt]_vars

\* C4: under sortBy=createdAt with createdAt distinct and increasing by
\* insertion, whatever createItem and deleteItem calls interleave with the
\* chain: every request is answered with a page, also when the item its
\* cursor was built from is gone; the items of the pages are in sort order,
\* none twice; and when the chain ends, every matching item that was there
\* before the first request and still is has been returned.
C4Scope ==
  /\ Started
  /\ first.cursor = NoCursor
  /\ first.sortBy = "createdAt"
  /\ LimitNum(first) >= 1
  /\ mono
  /\ "update" \notin dirty
C4_StableUnderWrites ==
  C4Scope =>
    /\ Ok
    /\ \A i, j \in 1..Len(pages) :
         i < j => /\ pages[i].id # pages[j].id
                  /\ IF first.sortOrder = "desc"
                     THEN pages[i].createdAt > pages[j].createdAt
                     ELSE pages[i].createdAt < pages[j].createdAt
    /\ ~res.hasMore =>
         \A x \in db :
           (x.id < firstNew /\ Matches(x, BaseFilter(first))) =>
             \E i \in 1..Len(pages) : pages[i].id = x.id
C4_Witness ==
  /\ C4Scope
  /\ Complete
  /\ orphan
  /\ {"create", "delete"} \subseteq dirty
  /\ Len(res.items) >= 1
  /\ Len(pages) > Len(res.items)
  /\ \E x \in db : x.id < firstNew /\ Matches(x, BaseFilter(first))

\* C9: a request whose cursor was issued under sortBy A and whose sortBy is
\* B # A is accepted, and its cursor condition is on the field A of the
\* cursor with the value the cursor holds for A.
Switched == Started /\ req.cursor # NoCursor /\ under \notin {"", req.sortBy}
CursorField(f) ==
  IF f.or.kind = "cursor" THEN f.or.field
  ELSE IF f.createdAt.op # "none" THEN "createdAt" ELSE ""
CursorOperand(f) == IF f.or.kind = "cursor" THEN f.or.v ELSE f.createdAt.v
Embedded(tok, key) ==
  IF key = "createdAt" THEN NewDate(Prop(tok, key)) ELSE Prop(tok, key)
Beyond(next, prev, q) ==
  LET cmp == IF q.sortOrder = "desc" THEN "lt" ELSE "gt"
      c1 == NewDate(Prop(next, "createdAt"))
      c0 == NewDate(Prop(prev, "createdAt"))
      v1 == Prop(next, q.sortBy)
      v0 == Prop(prev, q.sortBy)
  IN IF q.sortBy = "createdAt" THEN Cmp(cmp, c1, c0)
     ELSE Cmp(cmp, v1, v0) \/ (Cmp("eq", v1, v0) /\ Cmp(cmp, c1, c0))
C10_PageOrEnd == Regular => (Ok /\ (Pending \/ ~res.hasMore))
C10_CursorAdvances ==
  (Regular /\ req.cursor # NoCursor /\ Pending) => Beyond(res.nextCursor, req.cursor, req)
C10_Terminates ==
  /\ []C10_PageOrEnd
  /\ []C10_CursorAdvances
  /\ []<>(~(Regular /\ Pending))
C10_Witness ==
  /\ Regular
  /\ Complete
  /\ first.sortBy = "price"
  /\ under = "price"
  /\ Len(pages) >= 3
  /\ \E a, b \in db : a # b /\ a.price = b.price /\ a.createdAt = b.createdAt

====
